---- MODULE Spec2Model ----
(***************************************************************************)
(* A model of sleeper_league_data.py: the Sleeper API client, the          *)
(* rostered-set and season aggregation functions, the web formatter, the   *)
(* league-id configuration and the sequential control flow of main().      *)
(*                                                                         *)
(* Conventions.                                                            *)
(*   - A value that may be None is a record [st, val]: st = "unset" before *)
(*     the assignment, "absent" for None, "present" otherwise.             *)
(*   - A Python dict kept in insertion order is a sequence of records.     *)
(*   - Fantasy points are integers (tenths of a point); the quotient       *)
(*     total / weeks_played is a fraction in lowest terms.                 *)
(*   - A dereference of None (TypeError / AttributeError) ends the run     *)
(*     with status "fault".                                                *)
(***************************************************************************)
EXTENDS Integers, Sequences, FiniteSets, TLC

\* ---------------------------------------------------------------- bounds
\* Highest week number the NFL state reports, and number of weeks of stats.
MaxWeek == 2

\* Universes of the sample documents returned by the API.
PlayerIds == {1, 2}
UserIds == {1, 2}
RosterIds == {1, 2}
\* pts_half_ppr values of one player in one week (tenths of a point).
PtsVals == {-3, 0, 2}

\* ------------------------------------------------------- optional values
Unset == [st |-> "unset", val |-> <<>>]
None == [st |-> "absent", val |-> <<>>]
Some(v) == [st |-> "present", val |-> v]

\* Python truthiness of an optional list / insertion-ordered dict.
Truthy(x) == x.st = "present" /\ Len(x.val) > 0
\* Python truthiness of an optional non-empty document (league, NFL state).
TruthyDoc(x) == x.st = "present"

SeqToSet(s) == {s[i] : i \in 1..Len(s)}

RECURSIVE SumSeq(_)
SumSeq(s) == IF s = <<>> THEN 0 ELSE Head(s) + SumSeq(Tail(s))

RECURSIVE Gcd(_, _)
Gcd(a, b) == IF b = 0 THEN a ELSE Gcd(b, a % b)

\* The value of n / d (n > 0, d >= 0) as a fraction in lowest terms; a
\* division by zero shows as a fraction over 0.
Quotient(n, d) == LET g == Gcd(n, d) IN [num |-> n \div g, den |-> d \div g]
Zero == [num |-> 0, den |-> 1]

\* All sequences over S of length at most n.
SeqsUpTo(S, n) == UNION {[1..k -> S] : k \in 0..n}

\* ------------------------------------------------ get_rostered_players
\* A roster's 'players' entry: the key may be missing, null or a list.
PlayersEntries(maxLen) ==
    {[kind |-> "missing", items |-> <<>>], [kind |-> "null", items |-> <<>>]}
    \cup {[kind |-> "list", items |-> s] : s \in SeqsUpTo(PlayerIds, maxLen)}

\* roster.get('players', []): a missing key gives [], a null gives None.
RosterPlayersTruthy(roster) ==
    roster.players.kind = "list" /\ Len(roster.players.items) > 0

RECURSIVE get_rostered_players_loop(_, _)
get_rostered_players_loop(rosters_data, rostered_players) ==
    IF rosters_data = <<>> THEN rostered_players
    ELSE LET roster == Head(rosters_data) IN
         get_rostered_players_loop(Tail(rosters_data),
             IF RosterPlayersTruthy(roster)
             THEN rostered_players \cup SeqToSet(roster.players.items)
             ELSE rostered_players)

\* Mutant: each roster replaces the set instead of being added to it.
RECURSIVE get_rostered_players_assign(_, _)
get_rostered_players_assign(rosters_data, rostered_players) ==
    IF rosters_data = <<>> THEN rostered_players
    ELSE LET roster == Head(rosters_data) IN
         get_rostered_players_assign(Tail(rosters_data),
             IF RosterPlayersTruthy(roster)
             THEN SeqToSet(roster.players.items)
             ELSE rostered_players)

get_rostered_players_last(rosters_data) ==
    get_rostered_players_assign(rosters_data, {})

get_rostered_players(rosters_data) ==
    get_rostered_players_loop(rosters_data, {})

\* ------------------------- get_unrostered_players_with_season_stats
\* One player's entry in one week's stats document: the player may be
\* missing from the document (has = FALSE), or have a stats dict that
\* lacks pts_half_ppr (haspts = FALSE), or carry a pts_half_ppr value.
NotInWeek == [has |-> FALSE, haspts |-> FALSE, pts |-> 0]
NoPts == [has |-> TRUE, haspts |-> FALSE, pts |-> 0]
Pts(v) == [has |-> TRUE, haspts |-> TRUE, pts |-> v]
PlayerWeekStats == {NotInWeek, NoPts} \cup {Pts(v) : v \in PtsVals}

\* player_week_stats.get('pts_half_ppr', 0)
week_fantasy_points(player_week_stats) ==
    IF player_week_stats.haspts THEN player_week_stats.pts ELSE 0

\* `if not week_stats or player_id not in week_stats: continue`
WeekSkipped(week_stats, player_id) ==
    \/ week_stats.st # "present"
    \/ ~ week_stats.val[player_id].has

\* Mutant: a week with zero points counts as played.
CountsAsPlayedNonNegative(pts) == pts >= 0

\* `if week_fantasy_points > 0`
CountsAsPlayed(pts) == pts > 0

\* The inner loop over stats_by_week.items().  stats_by_week is the dict
\* in insertion order: a sequence of [week, stats].  The accumulator holds
\* season_totals['pts_half_ppr'] (key present or not, and its sum), the
\* keys of weekly_stats, total_fantasy_points and weeks_played.
RECURSIVE season_loop(_, _, _, _)
season_loop(player_id, stats_by_week, i, acc) ==
    IF i > Len(stats_by_week) THEN acc
    ELSE IF WeekSkipped(stats_by_week[i].stats, player_id)
         THEN season_loop(player_id, stats_by_week, i + 1, acc)
         ELSE LET player_week_stats == stats_by_week[i].stats.val[player_id]
                  pts == week_fantasy_points(player_week_stats)
                  totals == IF player_week_stats.haspts
                            THEN [has |-> TRUE,
                                  val |-> acc.season_pts.val + player_week_stats.pts]
                            ELSE acc.season_pts
              IN season_loop(player_id, stats_by_week, i + 1,
                   [season_pts |-> totals,
                    weekly_stats |-> acc.weekly_stats \cup {stats_by_week[i].week},
                    total_fantasy_points |->
                        IF CountsAsPlayed(pts) THEN acc.total_fantasy_points + pts
                        ELSE acc.total_fantasy_points,
                    weeks_played |->
                        IF CountsAsPlayed(pts) THEN acc.weeks_played + 1
                        ELSE acc.weeks_played])

season_start ==
    [season_pts |-> [has |-> FALSE, val |-> 0], weekly_stats |-> {},
     total_fantasy_points |-> 0, weeks_played |-> 0]

\* player_info.get('active', False): a missing key counts as inactive.
IsActive(player_info) == player_info.active = "true"

PlayerSkipped(player_info, rostered_players) ==
    \/ player_info.player_id \in rostered_players
    \/ ~ IsActive(player_info)

avg_points_per_week(acc) ==
    IF acc.weeks_played > 0
    THEN Quotient(acc.total_fantasy_points, acc.weeks_played)
    ELSE Zero

\* Mutant: a player without fantasy points is emitted too.
HasFantasyPointsOrNone(total_fantasy_points) == total_fantasy_points >= 0

\* `if total_fantasy_points > 0`: only these players are emitted
HasFantasyPoints(total_fantasy_points) == total_fantasy_points > 0

RECURSIVE get_unrostered_loop(_, _, _, _)
get_unrostered_loop(players_data, rostered_players, stats_by_week, out) ==
    IF players_data = <<>> THEN out
    ELSE LET player_info == Head(players_data)
             rest == Tail(players_data)
         IN IF PlayerSkipped(player_info, rostered_players)
            THEN get_unrostered_loop(rest, rostered_players, stats_by_week, out)
            ELSE LET acc == season_loop(player_info.player_id, stats_by_week,
                                        1, season_start)
                 IN IF HasFantasyPoints(acc.total_fantasy_points)
                    THEN get_unrostered_loop(rest, rostered_players, stats_by_week,
                           Append(out,
                             [player_id |-> player_info.player_id,
                              season_pts |-> acc.season_pts,
                              weekly_stats |-> acc.weekly_stats,
                              total_fantasy_points |-> acc.total_fantasy_points,
                              weeks_played |-> acc.weeks_played,
                              avg_points_per_week |-> avg_points_per_week(acc)]))
                    ELSE get_unrostered_loop(rest, rostered_players,
                                             stats_by_week, out)

get_unrostered_players_with_season_stats(players, rostered, by_week) ==
    get_unrostered_loop(players, rostered, by_week, <<>>)

\* --------------------------- save_unrostered_players_season_stats
\* list.sort(key=total_fantasy_points, reverse=True): a stable sort, so
\* entries with equal keys keep the order they had in the input.
RECURSIVE InsertAscending(_, _)
InsertAscending(sorted, x) ==
    IF sorted = <<>> THEN <<x>>
    ELSE IF Head(sorted).total_fantasy_points <= x.total_fantasy_points
         THEN <<Head(sorted)>> \o InsertAscending(Tail(sorted), x)
         ELSE <<x>> \o sorted

RECURSIVE InsertDescending(_, _)
InsertDescending(sorted, x) ==
    IF sorted = <<>> THEN <<x>>
    ELSE IF Head(sorted).total_fantasy_points >= x.total_fantasy_points
         THEN <<Head(sorted)>> \o InsertDescending(Tail(sorted), x)
         ELSE <<x>> \o sorted

RECURSIVE SortAscending(_, _)
SortAscending(items, sorted) ==
    IF items = <<>> THEN sorted
    ELSE SortAscending(Tail(items), InsertAscending(sorted, Head(items)))

RECURSIVE SortDescending(_, _)
SortDescending(items, sorted) ==
    IF items = <<>> THEN sorted
    ELSE SortDescending(Tail(items), InsertDescending(sorted, Head(items)))

\* Mutant: reverse=True is dropped.
sort_by_total_ascending(unrostered_stats) == SortAscending(unrostered_stats, <<>>)

sort_by_total(unrostered_stats) == SortDescending(unrostered_stats, <<>>)

\* output_data of save_unrostered_players_season_stats (generated_at left out).
save_unrostered_players_season_stats(unrostered_stats, id, cur_week, season) ==
    LET sorted_players == sort_by_total(unrostered_stats) IN
    [league_id |-> id,
     season |-> season,
     weeks_included |-> [w \in 1..cur_week |-> w],
     total_unrostered_players |-> Len(sorted_players),
     players |-> sorted_players]

\* ------------------------------------------ save_formatted_data_for_web
\* Display and team names are values tagged with the user they belong to.
Unknown == [kind |-> "Unknown", of |-> 0]
DisplayName(uid) == [kind |-> "display_name", of |-> uid]
TeamName(uid) == [kind |-> "team_name", of |-> uid]

\* user.get('display_name', 'Unknown')
user_display_name(user) ==
    IF user.has_display_name THEN DisplayName(user.user_id) ELSE Unknown

\* user.get('metadata', {}).get('team_name', user.get('display_name', 'Unknown'))
user_team_name(user) ==
    IF user.has_team_name THEN TeamName(user.user_id) ELSE user_display_name(user)

\* next((r for r in rosters_data if r.get('owner_id') == user.get('user_id')), None):
\* the index of the first roster the user owns, 0 for None.  owner_id 0 is null.
user_roster(rosters_data, user) ==
    LET owned == {i \in 1..Len(rosters_data) :
                     rosters_data[i].owner_id = user.user_id}
    IN IF owned = {} THEN 0 ELSE CHOOSE i \in owned : \A j \in owned : i <= j

DictPut(d, k, v) == [x \in DOMAIN d \cup {k} |-> IF x = k THEN v ELSE d[x]]
EmptyDict == [x \in {} |-> Unknown]

RECURSIVE roster_to_user_loop(_, _, _)
roster_to_user_loop(users_data, rosters_data, roster_to_user) ==
    IF users_data = <<>> THEN roster_to_user
    ELSE LET user == Head(users_data)
             i == user_roster(rosters_data, user)
         IN roster_to_user_loop(Tail(users_data), rosters_data,
              IF i = 0 THEN roster_to_user
              ELSE DictPut(roster_to_user, rosters_data[i].roster_id,
                     [display_name |-> user_display_name(user),
                      team_name |-> user_team_name(user)]))

roster_to_user_map(users_data, rosters_data) ==
    roster_to_user_loop(users_data, rosters_data, EmptyDict)

\* roster_to_user.get(roster_id, {'display_name': 'Unknown', 'team_name': 'Unknown'})
team_info(roster_to_user, roster_id) ==
    IF roster_id \in DOMAIN roster_to_user THEN roster_to_user[roster_id]
    ELSE [display_name |-> Unknown, team_name |-> Unknown]

\* sum(starters_points) if starters_points else 0
total_starters_points(matchup) ==
    IF matchup.starters_points.kind = "list"
    THEN SumSeq(matchup.starters_points.items) ELSE 0

matchup_data(roster_to_user, matchup) ==
    LET info == team_info(roster_to_user, matchup.roster_id) IN
    [roster_id |-> matchup.roster_id,
     team_name |-> info.team_name,
     display_name |-> info.display_name,
     total_points |-> total_starters_points(matchup)]

\* Mutant: the check for a week without matchups is dropped.
WeekProcessedAlways(matchups) == TRUE

\* `if not matchups: continue`
WeekProcessed(matchups) == Truthy(matchups)

RECURSIVE format_weeks(_, _, _, _)
format_weeks(matchups_by_week, roster_to_user, w, weeks) ==
    IF w > Len(matchups_by_week) THEN weeks
    ELSE format_weeks(matchups_by_week, roster_to_user, w + 1,
           IF WeekProcessed(matchups_by_week[w])
           THEN Append(weeks,
                  [week |-> w,
                   matchups |-> [j \in 1..Len(matchups_by_week[w].val) |->
                       matchup_data(roster_to_user, matchups_by_week[w].val[j])]])
           ELSE weeks)

\* formatted_data of save_formatted_data_for_web.  The fields a matchup
\* carries through unchanged (starters, starters_points, players_points,
\* matchup_id) and the players directory built from players_points are
\* left out: they do not enter the team lookup or the totals.
save_formatted_data_for_web(by_week, users_data, rosters_data, league, cur_week, id) ==
    LET roster_to_user == roster_to_user_map(users_data, rosters_data) IN
    [weeks |-> format_weeks(by_week, roster_to_user, 1, <<>>),
     teams |-> roster_to_user,
     league_info |-> [league_id |-> id, season |-> league.season,
                      current_week |-> cur_week]]

\* Iterating None: users_data, rosters_data (scanned once per user) or the
\* matchups of a processed week.
save_formatted_data_faults(matchups_by_week, users_data, rosters_data) ==
    \/ users_data.st # "present"
    \/ rosters_data.st # "present" /\ Len(users_data.val) > 0
    \/ \E w \in 1..Len(matchups_by_week) :
          WeekProcessed(matchups_by_week[w]) /\ matchups_by_week[w].st # "present"

\* ----------------------------------------- load_env_file, get_league_id
LEAGUE_KEY == "SLEEPER_LEAGUE_ID"
EnvKeys == {LEAGUE_KEY, "OTHER"}
NotSet == [set |-> FALSE, val |-> ""]
SetTo(v) == [set |-> TRUE, val |-> v]

\* A line of .env after strip(): blank, a '#' comment (which may contain
\* '='), text without '=', or key=value.
\* `if line and not line.startswith('#') and '=' in line`
LineIsAssignment(line) == line.kind = "kv"

\* Mutant: a variable the process already has is kept (setdefault).
env_assign_keep_existing(environ, line) ==
    IF environ[line.key].set THEN environ
    ELSE [environ EXCEPT ![line.key] = SetTo(line.value)]

\* os.environ[key.strip()] = value.strip()
env_assign(environ, line) == [environ EXCEPT ![line.key] = SetTo(line.value)]

RECURSIVE load_env_lines(_, _)
load_env_lines(lines, environ) ==
    IF lines = <<>> THEN environ
    ELSE load_env_lines(Tail(lines),
           IF LineIsAssignment(Head(lines))
           THEN env_assign(environ, Head(lines))
           ELSE environ)

load_env_file(file, environ) ==
    IF file.exists THEN load_env_lines(file.lines, environ) ELSE environ

\* The result of get_league_id: a league id, or sys.exit(1).
get_league_id(args, environ) ==
    IF args.given THEN [exit |-> FALSE, league_id |-> args.val]
    ELSE IF environ[LEAGUE_KEY].set /\ environ[LEAGUE_KEY].val # ""
         THEN [exit |-> FALSE, league_id |-> environ[LEAGUE_KEY].val]
         ELSE [exit |-> TRUE, league_id |-> ""]

\* ================================================================ state
VARIABLES
    pc,               \* position in main() (or in a direct call of a function)
    status,           \* "running", "ok" (main returned), "exit1", "fault"
    argv,             \* sys.argv[1]: [given, val]
    process_env,      \* the environment the process was started with
    environ,          \* os.environ
    env_file,         \* the .env file: [exists, lines]
    league_id,
    nfl_state, current_week, players_data, league_info, rosters, users,
    matchups_by_week, \* sequence of optionals, index = week
    draft_info, draft_picks,
    stats_by_week,    \* sequence of [week, stats]
    rostered_players, unrostered_stats,
    unrostered_file,  \* output_data written by save_unrostered_players_season_stats
    formatted_data,   \* document written to web_interface_data.json
    files,            \* names of the files written so far
    log,              \* HTTP requests and delays, in order
    trace             \* the fetches, aggregations and file writes so far, in order

cfgVars == <<argv, process_env, environ, env_file, league_id>>
fetchVars == <<nfl_state, current_week, players_data, league_info, rosters,
               users, matchups_by_week, draft_info, draft_picks>>
aggVars == <<stats_by_week, rostered_players, unrostered_stats, unrostered_file>>
vars == <<pc, status, cfgVars, fetchVars, aggVars, formatted_data, files, log,
          trace>>

\* ------------------------------------------------------ API responses
SamplePlayers ==
    <<[player_id |-> 1, active |-> "true"], [player_id |-> 2, active |-> "true"]>>
SampleRosters ==
    <<[roster_id |-> 1, owner_id |-> 1,
       players |-> [kind |-> "list", items |-> <<1>>]],
      [roster_id |-> 2, owner_id |-> 0,
       players |-> [kind |-> "null", items |-> <<>>]]>>
SampleUsers ==
    <<[user_id |-> 1, has_display_name |-> TRUE, has_team_name |-> FALSE]>>
SampleMatchups ==
    <<[roster_id |-> 1, starters_points |-> [kind |-> "list", items |-> <<3, 4>>]],
      [roster_id |-> 2, starters_points |-> [kind |-> "missing", items |-> <<>>]]>>
QuietWeek == [p \in PlayerIds |-> IF p = 1 THEN Pts(2) ELSE Pts(0)]
ScoringWeek == [p \in PlayerIds |-> Pts(2)]

NflStateResponses ==
    {None, Some([has_week |-> FALSE, week |-> 0])}
    \cup {Some([has_week |-> TRUE, week |-> w]) : w \in 0..MaxWeek}
PlayersResponses == {None, Some(SamplePlayers)}
LeagueResponses ==
    {None} \cup {Some([has_draft_id |-> d, season |-> "2025"]) : d \in BOOLEAN}
RostersResponses == {None, Some(<<>>), Some(SampleRosters)}
UsersResponses == {None, Some(SampleUsers)}
MatchupsResponses == {None, Some(SampleMatchups)}
DraftInfoResponses == {None, Some(<<"draft">>)}
DraftPicksResponses == {None, Some(<<"pick">>)}
StatsResponses == {None, Some(QuietWeek), Some(ScoringWeek)}

\* SleeperAPI._make_request: the GET, then the delay only when the request
\* and raise_for_status() raised nothing; the except branch returns None
\* without reaching time.sleep.
make_request(response) ==
    IF response.st = "present" THEN <<"request", "sleep">> ELSE <<"request">>

\* ---------------------------------------------------------- file names
File(name, id, week) == [name |-> name, id |-> id, week |-> week]
WebFile == File("web_interface_data", "", 0)
UnrosteredFile(id) == File("unrostered_season_stats", id, 0)

\* Mutant: the file is written whether or not there is a result.
WriteIfAlways(x) == TRUE

\* `if x:` before a file of main is written, for an optional list or dict.
WriteIf(x) == Truthy(x)

\* nfl_state.get('week', 1) if nfl_state else 1
NflStateUsed(state) == TruthyDoc(state)

week_of(state) ==
    IF NflStateUsed(state)
    THEN (IF state.val.has_week THEN state.val.week ELSE 1)
    ELSE 1

\* ------------------------------------------------------- order of steps
\* One step of a run that reaches outside the process or computes the season
\* aggregate: an API request, the aggregation, or the writing of a file.
Event(kind, what, week) == [kind |-> kind, what |-> what, week |-> week]

\* self._make_request(...) was called for the resource `what`
Fetched(what, week) == Append(trace, Event("fetch", what, week))

\* `with open(filename, 'w') as f: json.dump(...)` ran for `file`
Wrote(file) == Append(trace, Event("write", file.name, file.week))

\* `if x: with open(filename, 'w') ...` ran
Recorded(x, file) == IF WriteIf(x) THEN Wrote(file) ELSE trace

\* Mutant: the weeks are requested from the current week down to week 1.
week_to_fetch_descending(fetched) == current_week - Len(fetched)

\* `for week in weeks` over list(range(1, current_week + 1)): the week of the
\* next request, given the results collected so far.
week_to_fetch(fetched) == Len(fetched) + 1

\* ================================================================ main()
Goto(from, to) == pc = from /\ pc' = to

Fault == pc' = "done" /\ status' = "fault"

\* main: load_env_file()
LoadEnvFile ==
    /\ Goto("load_env_file", "get_league_id")
    /\ environ' = load_env_file(env_file, environ)
    /\ UNCHANGED <<status, argv, process_env, env_file, league_id, fetchVars,
                   aggVars, formatted_data, files, log, trace>>

\* main: league_id = get_league_id()
GetLeagueId ==
    /\ pc = "get_league_id"
    /\ LET r == get_league_id(argv, environ) IN
       IF r.exit
       THEN pc' = "done" /\ status' = "exit1" /\ UNCHANGED league_id
       ELSE pc' = "get_nfl_state" /\ league_id' = r.league_id /\ UNCHANGED status
    /\ UNCHANGED <<argv, process_env, environ, env_file, fetchVars, aggVars,
                   formatted_data, files, log, trace>>

\* main: nfl_state = api.get_nfl_state(); current_week = ...
GetNflState ==
    /\ pc = "get_nfl_state"
    /\ \E r \in NflStateResponses :
         /\ nfl_state' = r
         /\ log' = log \o make_request(r)
         /\ trace' = Fetched("nfl_state", 0)
         /\ IF NflStateUsed(r) /\ r.st # "present"
            THEN Fault /\ UNCHANGED current_week
            ELSE pc' = "get_all_players" /\ current_week' = week_of(r)
                 /\ UNCHANGED status
    /\ UNCHANGED <<cfgVars, players_data, league_info, rosters, users,
                   matchups_by_week, draft_info, draft_picks, aggVars,
                   formatted_data, files>>

\* main: players_data = api.get_all_players()
GetAllPlayers ==
    /\ Goto("get_all_players", "get_league_info")
    /\ \E r \in PlayersResponses :
         /\ players_data' = r
         /\ log' = log \o make_request(r)
         /\ trace' = Fetched("players", 0)
    /\ UNCHANGED <<status, cfgVars, nfl_state, current_week, league_info, rosters,
                   users, matchups_by_week, draft_info, draft_picks, aggVars,
                   formatted_data, files>>

\* Mutant: the run goes on without league info.
LeagueInfoRequiredNever(league) == FALSE

\* `if not league_info: sys.exit(1)`
LeagueInfoRequired(league) == ~ TruthyDoc(league)

\* main: league_info = api.get_league_info(league_id), fatal when missing
GetLeagueInfo ==
    /\ pc = "get_league_info"
    /\ \E r \in LeagueResponses :
         /\ league_info' = r
         /\ log' = log \o make_request(r)
         /\ trace' = Fetched("league", 0)
         /\ IF LeagueInfoRequired(r)
            THEN pc' = "done" /\ status' = "exit1"
            ELSE pc' = "get_league_rosters" /\ UNCHANGED status
    /\ UNCHANGED <<cfgVars, nfl_state, current_week, players_data, rosters, users,
                   matchups_by_week, draft_info, draft_picks, aggVars,
                   formatted_data, files>>

\* main: rosters = api.get_league_rosters(league_id)
GetLeagueRosters ==
    /\ Goto("get_league_rosters", "get_league_users")
    /\ \E r \in RostersResponses :
         /\ rosters' = r
         /\ log' = log \o make_request(r)
         /\ trace' = Fetched("rosters", 0)
    /\ UNCHANGED <<status, cfgVars, nfl_state, current_week, players_data,
                   league_info, users, matchups_by_week, draft_info, draft_picks,
                   aggVars, formatted_data, files>>

\* main: users = api.get_league_users(league_id)
GetLeagueUsers ==
    /\ pc = "get_league_users"
    /\ pc' = IF current_week >= 1 THEN "get_league_matchups" ELSE "draft"
    /\ \E r \in UsersResponses :
         /\ users' = r
         /\ log' = log \o make_request(r)
         /\ trace' = Fetched("users", 0)
    /\ UNCHANGED <<status, cfgVars, nfl_state, current_week, players_data,
                   league_info, rosters, matchups_by_week, draft_info, draft_picks,
                   aggVars, formatted_data, files>>

\* get_multiple_weeks_matchups: one iteration of the loop over weeks 1..current_week
GetLeagueMatchups ==
    /\ pc = "get_league_matchups"
    /\ \E r \in MatchupsResponses :
         /\ matchups_by_week' = Append(matchups_by_week, r)
         /\ log' = log \o make_request(r)
         /\ trace' = Fetched("matchups", week_to_fetch(matchups_by_week))
    /\ pc' = IF Len(matchups_by_week) + 1 < current_week
             THEN "get_league_matchups" ELSE "draft"
    /\ UNCHANGED <<status, cfgVars, nfl_state, current_week, players_data,
                   league_info, rosters, users, draft_info, draft_picks, aggVars,
                   formatted_data, files>>

\* main: `if league_info.get('draft_id')`: draft_info = api.get_draft_info(...)
GetDraftInfo ==
    /\ pc = "draft"
    /\ IF league_info.st # "present"
       THEN Fault /\ UNCHANGED <<draft_info, draft_picks, log, trace>>
       ELSE IF league_info.val.has_draft_id
            THEN /\ \E r \in DraftInfoResponses :
                      /\ draft_info' = r
                      /\ log' = log \o make_request(r)
                      /\ trace' = Fetched("draft_info", 0)
                 /\ pc' = "get_draft_picks"
                 /\ UNCHANGED <<status, draft_picks>>
            ELSE /\ draft_info' = None
                 /\ draft_picks' = None
                 /\ pc' = "summary"
                 /\ UNCHANGED <<status, log, trace>>
    /\ UNCHANGED <<cfgVars, nfl_state, current_week, players_data, league_info,
                   rosters, users, matchups_by_week, aggVars, formatted_data, files>>

\* main: draft_picks = api.get_draft_picks(league_info['draft_id'])
GetDraftPicks ==
    /\ Goto("get_draft_picks", "summary")
    /\ \E r \in DraftPicksResponses :
         /\ draft_picks' = r
         /\ log' = log \o make_request(r)
         /\ trace' = Fetched("draft_picks", 0)
    /\ UNCHANGED <<status, cfgVars, nfl_state, current_week, players_data,
                   league_info, rosters, users, matchups_by_week, draft_info,
                   aggVars, formatted_data, files>>

\* main: print(format_league_summary(...)) when league_info, users and rosters
\* are all there; it prints and changes nothing.
FormatLeagueSummary ==
    /\ Goto("summary", "save_info")
    /\ UNCHANGED <<status, cfgVars, fetchVars, aggVars, formatted_data, files, log,
                   trace>>

\* matchups = matchups_by_week.get(current_week)
current_matchups ==
    IF current_week \in 1..Len(matchups_by_week)
    THEN matchups_by_week[current_week] ELSE None

\* The files after one `if x: with open(filename, 'w') ...: json.dump(x, f)`
\* block of main.
Written(x, file) == IF WriteIf(x) THEN files \cup {file} ELSE files

SaveLeagueInfo ==
    /\ Goto("save_info", "save_rosters")
    /\ files' = IF TruthyDoc(league_info)
                THEN files \cup {File("info", league_id, 0)} ELSE files
    /\ trace' = IF TruthyDoc(league_info)
                THEN Wrote(File("info", league_id, 0)) ELSE trace
    /\ UNCHANGED <<status, cfgVars, fetchVars, aggVars, formatted_data, log>>

SaveRosters ==
    /\ Goto("save_rosters", "save_users")
    /\ files' = Written(rosters, File("rosters", league_id, 0))
    /\ trace' = Recorded(rosters, File("rosters", league_id, 0))
    /\ UNCHANGED <<status, cfgVars, fetchVars, aggVars, formatted_data, log>>

SaveUsers ==
    /\ Goto("save_users", "save_matchups")
    /\ files' = Written(users, File("users", league_id, 0))
    /\ trace' = Recorded(users, File("users", league_id, 0))
    /\ UNCHANGED <<status, cfgVars, fetchVars, aggVars, formatted_data, log>>

SaveMatchups ==
    /\ Goto("save_matchups", "save_draft_info")
    /\ files' = Written(current_matchups,
                        File("matchups_week", league_id, current_week))
    /\ trace' = Recorded(current_matchups,
                         File("matchups_week", league_id, current_week))
    /\ UNCHANGED <<status, cfgVars, fetchVars, aggVars, formatted_data, log>>

SaveDraftInfo ==
    /\ Goto("save_draft_info", "save_draft_picks")
    /\ files' = Written(draft_info, File("draft_info", league_id, 0))
    /\ trace' = Recorded(draft_info, File("draft_info", league_id, 0))
    /\ UNCHANGED <<status, cfgVars, fetchVars, aggVars, formatted_data, log>>

SaveDraftPicks ==
    /\ Goto("save_draft_picks", "save_nfl_state")
    /\ files' = Written(draft_picks, File("draft_picks", league_id, 0))
    /\ trace' = Recorded(draft_picks, File("draft_picks", league_id, 0))
    /\ UNCHANGED <<status, cfgVars, fetchVars, aggVars, formatted_data, log>>

SaveNflState ==
    /\ Goto("save_nfl_state", "save_players")
    /\ files' = IF TruthyDoc(nfl_state)
                THEN files \cup {File("nfl_state", "", 0)} ELSE files
    /\ trace' = IF TruthyDoc(nfl_state)
                THEN Wrote(File("nfl_state", "", 0)) ELSE trace
    /\ UNCHANGED <<status, cfgVars, fetchVars, aggVars, formatted_data, log>>

SavePlayers ==
    /\ Goto("save_players", "web")
    /\ files' = Written(players_data, File("nfl_players", "", 0))
    /\ trace' = Recorded(players_data, File("nfl_players", "", 0))
    /\ UNCHANGED <<status, cfgVars, fetchVars, aggVars, formatted_data, log>>

\* `if players_data and users and rosters and matchups_by_week`
WebGuard(players, us, rs, mbw) ==
    Truthy(players) /\ Truthy(us) /\ Truthy(rs) /\ Len(mbw) > 0

\* main: save_formatted_data_for_web(...)
SaveFormattedDataForWeb ==
    /\ pc = "web"
    /\ IF WebGuard(players_data, users, rosters, matchups_by_week)
       THEN IF save_formatted_data_faults(matchups_by_week, users, rosters)
            THEN Fault /\ UNCHANGED <<formatted_data, files, trace>>
            ELSE /\ formatted_data' =
                      Some(save_formatted_data_for_web(matchups_by_week, users.val,
                             rosters.val, league_info.val, current_week, league_id))
                 /\ files' = files \cup {WebFile}
                 /\ trace' = Wrote(WebFile)
                 /\ pc' = "unrostered"
                 /\ UNCHANGED status
       ELSE /\ pc' = "unrostered"
            /\ UNCHANGED <<status, formatted_data, files, trace>>
    /\ UNCHANGED <<cfgVars, fetchVars, aggVars, log>>

\* `if players_data and rosters`
UnrosteredGuard(players, rs) == Truthy(players) /\ Truthy(rs)

\* main: decide whether the unrostered season stats are computed
UnrosteredCheck ==
    /\ pc = "unrostered"
    /\ IF UnrosteredGuard(players_data, rosters)
       THEN /\ pc' = IF current_week >= 1 THEN "get_weekly_stats" ELSE "aggregate"
            /\ UNCHANGED status
       ELSE pc' = "done" /\ status' = "ok"
    /\ UNCHANGED <<cfgVars, fetchVars, aggVars, formatted_data, files, log, trace>>

\* get_multiple_weeks_stats: one iteration of the loop over weeks 1..current_week
GetWeeklyStats ==
    /\ pc = "get_weekly_stats"
    /\ \E r \in StatsResponses :
         /\ stats_by_week' =
               Append(stats_by_week,
                      [week |-> week_to_fetch(stats_by_week), stats |-> r])
         /\ log' = log \o make_request(r)
         /\ trace' = Fetched("stats", week_to_fetch(stats_by_week))
    /\ pc' = IF Len(stats_by_week) + 1 < current_week
             THEN "get_weekly_stats" ELSE "aggregate"
    /\ UNCHANGED <<status, cfgVars, fetchVars, rostered_players, unrostered_stats,
                   unrostered_file, formatted_data, files>>

\* `if stats is not None`
IsValidStats(entry) == entry.stats.st = "present"

valid_stats(by_week) == SelectSeq(by_week, IsValidStats)

\* main: valid_stats, get_rostered_players, get_unrostered_players_with_season_stats
Aggregate ==
    /\ pc = "aggregate"
    /\ IF valid_stats(stats_by_week) # <<>>
       THEN IF rosters.st # "present" \/ players_data.st # "present"
            THEN Fault /\ UNCHANGED <<rostered_players, unrostered_stats, trace>>
            ELSE LET rp == get_rostered_players(rosters.val)
                     us == get_unrostered_players_with_season_stats(
                               players_data.val, rp, valid_stats(stats_by_week))
                 IN /\ rostered_players' = rp
                    /\ unrostered_stats' = us
                    /\ trace' = Append(trace, Event("aggregate", "unrostered", 0))
                    /\ IF us # <<>>
                       THEN pc' = "save_unrostered" /\ UNCHANGED status
                       ELSE pc' = "done" /\ status' = "ok"
       ELSE /\ pc' = "done" /\ status' = "ok"
            /\ UNCHANGED <<rostered_players, unrostered_stats, trace>>
    /\ UNCHANGED <<cfgVars, fetchVars, stats_by_week, unrostered_file,
                   formatted_data, files, log>>

\* main: save_unrostered_players_season_stats(...), then main returns
SaveUnrostered ==
    /\ pc = "save_unrostered"
    /\ unrostered_file' =
          Some(save_unrostered_players_season_stats(unrostered_stats, league_id,
                   current_week, league_info.val.season))
    /\ files' = files \cup {UnrosteredFile(league_id)}
    /\ trace' = Wrote(UnrosteredFile(league_id))
    /\ pc' = "done"
    /\ status' = "ok"
    /\ UNCHANGED <<cfgVars, fetchVars, stats_by_week, rostered_players,
                   unrostered_stats, formatted_data, log>>

\* ------------------------------------------------------ specification
\* The configurations a run of main() starts from.
ArgvVals == {[given |-> FALSE, val |-> ""], [given |-> TRUE, val |-> "L1"]}
EnvVals == {NotSet, SetTo("L2")}
NoEnvFile == [exists |-> FALSE, lines |-> <<>>]

EnvFileVals ==
    {NoEnvFile,
     [exists |-> TRUE,
      lines |-> <<[kind |-> "kv", key |-> LEAGUE_KEY, value |-> "L3"]>>]}

EnvOf(e) == [k \in EnvKeys |-> IF k = LEAGUE_KEY THEN e ELSE NotSet]

\* Nothing fetched, computed or written yet.
Blank ==
    /\ status = "running"
    /\ nfl_state = Unset /\ current_week = 0 /\ players_data = Unset
    /\ league_info = Unset /\ rosters = Unset /\ users = Unset
    /\ matchups_by_week = <<>> /\ draft_info = Unset /\ draft_picks = Unset
    /\ stats_by_week = <<>> /\ rostered_players = {} /\ unrostered_stats = <<>>
    /\ unrostered_file = Unset /\ formatted_data = Unset
    /\ files = {} /\ log = <<>> /\ trace = <<>>

Init ==
    /\ pc = "load_env_file"
    /\ Blank
    /\ league_id = ""
    /\ argv \in ArgvVals
    /\ \E e \in EnvVals : process_env = EnvOf(e)
    /\ environ = process_env
    /\ env_file \in EnvFileVals

Next ==
    \/ LoadEnvFile \/ GetLeagueId
    \/ GetNflState \/ GetAllPlayers \/ GetLeagueInfo
    \/ GetLeagueRosters \/ GetLeagueUsers \/ GetLeagueMatchups
    \/ GetDraftInfo \/ GetDraftPicks
    \/ FormatLeagueSummary
    \/ SaveLeagueInfo \/ SaveRosters \/ SaveUsers \/ SaveMatchups
    \/ SaveDraftInfo \/ SaveDraftPicks \/ SaveNflState \/ SavePlayers
    \/ SaveFormattedDataForWeb
    \/ UnrosteredCheck \/ GetWeeklyStats \/ Aggregate \/ SaveUnrostered

Spec == Init /\ [][Next]_vars

\* ------------------------------------------- the configuration alone
\* Longest .env file.
MaxLines == 2

LineVals ==
    {[kind |-> "blank", key |-> "", value |-> ""],
     [kind |-> "comment", key |-> LEAGUE_KEY, value |-> "L3"],
     [kind |-> "noeq", key |-> LEAGUE_KEY, value |-> ""],
     [kind |-> "kv", key |-> LEAGUE_KEY, value |-> "L3"],
     [kind |-> "kv", key |-> LEAGUE_KEY, value |-> ""],
     [kind |-> "kv", key |-> "OTHER", value |-> "L3"]}

InitCfg ==
    /\ pc = "load_env_file"
    /\ Blank
    /\ league_id = ""
    /\ argv \in ArgvVals
    /\ \E e \in {NotSet, SetTo(""), SetTo("L2")} : process_env = EnvOf(e)
    /\ environ = process_env
    /\ env_file \in {NoEnvFile}
          \cup {[exists |-> TRUE, lines |-> l] : l \in SeqsUpTo(LineVals, MaxLines)}

NextCfg == LoadEnvFile \/ GetLeagueId

SpecCfg == InitCfg /\ [][NextCfg]_vars

\* No configuration is read in a direct call of one of the functions.
NoConfig ==
    /\ argv = [given |-> FALSE, val |-> ""]
    /\ process_env = EnvOf(NotSet)
    /\ environ = process_env
    /\ env_file = NoEnvFile
    /\ league_id = "L1"

\* --------------------------------------- get_rostered_players alone
\* Longest roster list, and longest 'players' list of one roster.
MaxRosters == 2
MaxListLen == 2

RosterListVals ==
    UNION {[1..k -> {[roster_id |-> 0, owner_id |-> 0, players |-> e] :
                        e \in PlayersEntries(MaxListLen)}] : k \in 0..MaxRosters}

InitRostered ==
    /\ pc = "call_get_rostered_players"
    /\ NoConfig
    /\ status = "running"
    /\ nfl_state = Unset /\ current_week = 0 /\ players_data = Unset
    /\ league_info = Unset /\ users = Unset
    /\ \E l \in RosterListVals :
         rosters = Some([i \in 1..Len(l) |-> [l[i] EXCEPT !.roster_id = i]])
    /\ matchups_by_week = <<>> /\ draft_info = Unset /\ draft_picks = Unset
    /\ stats_by_week = <<>> /\ rostered_players = {} /\ unrostered_stats = <<>>
    /\ unrostered_file = Unset /\ formatted_data = Unset
    /\ files = {} /\ log = <<>> /\ trace = <<>>

\* rostered_players = get_rostered_players(rosters)
CallGetRosteredPlayers ==
    /\ Goto("call_get_rostered_players", "returned")
    /\ rostered_players' = get_rostered_players(rosters.val)
    /\ UNCHANGED <<status, cfgVars, fetchVars, stats_by_week, unrostered_stats,
                   unrostered_file, formatted_data, files, log, trace>>

NextRostered == CallGetRosteredPlayers

SpecRostered == InitRostered /\ [][NextRostered]_vars

\* ----------- get_unrostered_players_with_season_stats and the save alone
DirectoryVals ==
    {d \in [1..Cardinality(PlayerIds) ->
               [player_id : PlayerIds, active : {"true", "false", "missing"}]] :
        \A i \in DOMAIN d : d[i].player_id = i}

StatsByWeekVals ==
    {[w \in 1..MaxWeek |-> [week |-> w, stats |-> Some(d[w])]] :
        d \in [1..MaxWeek -> [PlayerIds -> PlayerWeekStats]]}

InitAgg ==
    /\ pc = "call_get_unrostered"
    /\ NoConfig
    /\ status = "running"
    /\ nfl_state = Unset /\ current_week = MaxWeek
    /\ players_data \in {Some(d) : d \in DirectoryVals}
    /\ league_info = Some([has_draft_id |-> FALSE, season |-> "2025"])
    /\ rosters = Unset /\ users = Unset
    /\ matchups_by_week = <<>> /\ draft_info = Unset /\ draft_picks = Unset
    /\ stats_by_week \in StatsByWeekVals
    /\ rostered_players \in SUBSET PlayerIds
    /\ unrostered_stats = <<>>
    /\ unrostered_file = Unset /\ formatted_data = Unset
    /\ files = {} /\ log = <<>> /\ trace = <<>>

\* unrostered_stats = get_unrostered_players_with_season_stats(...)
CallGetUnrostered ==
    /\ Goto("call_get_unrostered", "save_unrostered")
    /\ unrostered_stats' =
          get_unrostered_players_with_season_stats(players_data.val,
              rostered_players, stats_by_week)
    /\ UNCHANGED <<status, cfgVars, fetchVars, stats_by_week, rostered_players,
                   unrostered_file, formatted_data, files, log, trace>>

NextAgg == CallGetUnrostered \/ SaveUnrostered

SpecAgg == InitAgg /\ [][NextAgg]_vars

\* ------------------------------- save_formatted_data_for_web alone
UserListVals ==
    {u \in UNION {[1..k -> [user_id : UserIds, has_display_name : BOOLEAN,
                            has_team_name : BOOLEAN]] :
                     k \in 0..Cardinality(UserIds)} :
        \A i \in DOMAIN u : u[i].user_id = i}

\* owner_id 0 is a roster without owner.
OwnedRosterListVals ==
    {[i \in 1..Cardinality(RosterIds) |->
         [roster_id |-> i, owner_id |-> o[i],
          players |-> [kind |-> "missing", items |-> <<>>]]] :
        o \in [1..Cardinality(RosterIds) -> {0} \cup UserIds]}

\* A week without result, without matchups, or with one matchup; the
\* roster id Cardinality(RosterIds) + 1 belongs to no roster.
WeekMatchupsVals ==
    {None, Some(<<>>)}
    \cup {Some(<<[roster_id |-> r, starters_points |-> sp]>>) :
            r \in 1..(Cardinality(RosterIds) + 1),
            sp \in {[kind |-> "missing", items |-> <<>>],
                    [kind |-> "list", items |-> <<3, 4>>]}}

InitFmt ==
    /\ pc = "call_save_formatted"
    /\ NoConfig
    /\ status = "running"
    /\ nfl_state = Unset /\ current_week = MaxWeek
    /\ players_data = Some(SamplePlayers)
    /\ league_info = Some([has_draft_id |-> FALSE, season |-> "2025"])
    /\ rosters \in {Some(r) : r \in OwnedRosterListVals}
    /\ users \in {Some(u) : u \in UserListVals}
    /\ matchups_by_week \in [1..MaxWeek -> WeekMatchupsVals]
    /\ draft_info = Unset /\ draft_picks = Unset
    /\ stats_by_week = <<>> /\ rostered_players = {} /\ unrostered_stats = <<>>
    /\ unrostered_file = Unset /\ formatted_data = Unset
    /\ files = {} /\ log = <<>> /\ trace = <<>>

\* save_formatted_data_for_web(matchups_by_week, players_data, users, rosters, ...)
CallSaveFormatted ==
    /\ Goto("call_save_formatted", "returned")
    /\ formatted_data' =
          Some(save_formatted_data_for_web(matchups_by_week, users.val,
                   rosters.val, league_info.val, current_week, league_id))
    /\ files' = files \cup {WebFile}
    /\ UNCHANGED <<status, cfgVars, fetchVars, aggVars, log, trace>>

NextFmt == CallSaveFormatted

SpecFmt == InitFmt /\ [][NextFmt]_vars

\* =============================================================== claims
\* --- helpers of the claims about the season aggregate (SpecAgg)
AggReturned == pc \in {"save_unrostered", "done"}
EmittedIds == {unrostered_stats[i].player_id : i \in DOMAIN unrostered_stats}

\* pts_half_ppr of player p in the i-th supplied week, 0 when there is none.
SuppliedPts(p, i) ==
    LET ws == stats_by_week[i].stats IN
    IF ws.st = "present" /\ ws.val[p].has /\ ws.val[p].haspts
    THEN ws.val[p].pts ELSE 0

RECURSIVE SumOfAllWeeks(_, _)
SumOfAllWeeks(p, i) ==
    IF i = 0 THEN 0 ELSE SuppliedPts(p, i) + SumOfAllWeeks(p, i - 1)

PositiveWeeks(p) == {i \in DOMAIN stats_by_week : SuppliedPts(p, i) > 0}

\* C1: a player is in the result of get_unrostered_players_with_season_stats
\* if and only if the player is not rostered, is active, and the sum of the
\* player's pts_half_ppr over all supplied weeks is greater than 0.
C1_IncludedIffSumPositive ==
    AggReturned =>
        \A i \in DOMAIN players_data.val :
            LET info == players_data.val[i] IN
            (info.player_id \in EmittedIds) <=>
                /\ info.player_id \notin rostered_players
                /\ info.active = "true"
                /\ SumOfAllWeeks(info.player_id, Len(stats_by_week)) > 0

\* C6: every emitted record has weeks_played equal to the number of supplied
\* weeks with pts_half_ppr > 0, and avg_points_per_week equal to
\* total_fantasy_points / weeks_played when weeks_played > 0, else 0; no
\* average is the result of a division by zero (a fraction over 0).
C6_WeeksPlayedAndAverage ==
    AggReturned =>
        \A i \in DOMAIN unrostered_stats :
            LET r == unrostered_stats[i] IN
            /\ r.weeks_played = Cardinality(PositiveWeeks(r.player_id))
            /\ r.weeks_played > 0 =>
                  r.avg_points_per_week.num * r.weeks_played
                     = r.total_fantasy_points * r.avg_points_per_week.den
            /\ r.weeks_played = 0 => r.avg_points_per_week = Zero
            /\ r.avg_points_per_week.den > 0

\* C6 witness: a record of a player who appears in two weeks and scored in
\* one of them only (total 2, one week played, average 2).
C6_Witness ==
    /\ AggReturned
    /\ \E i \in DOMAIN unrostered_stats :
          /\ Cardinality(unrostered_stats[i].weekly_stats) = 2
          /\ unrostered_stats[i].weeks_played = 1
          /\ unrostered_stats[i].total_fantasy_points = 2
          /\ unrostered_stats[i].avg_points_per_week = [num |-> 2, den |-> 1]

\* The sum of the strictly positive pts_half_ppr values of player p over the
\* first i supplied weeks.
RECURSIVE SumOfPositiveWeeks(_, _)
SumOfPositiveWeeks(p, i) ==
    IF i = 0 THEN 0
    ELSE (IF SuppliedPts(p, i) > 0 THEN SuppliedPts(p, i) ELSE 0)
            + SumOfPositiveWeeks(p, i - 1)

\* C12: every record emitted by get_unrostered_players_with_season_stats has
\* total_fantasy_points > 0 and weeks_played >= 1; its total_fantasy_points
\* is the sum of the strictly positive weekly pts_half_ppr values only, so
\* it is never less than the pts_half_ppr entry of its season_stats; and its
\* average is the quotient, never the zero of the fallback.
C12_EmittedHavePoints ==
    AggReturned =>
        \A i \in DOMAIN unrostered_stats :
            LET r == unrostered_stats[i] IN
            /\ r.total_fantasy_points > 0
            /\ r.weeks_played >= 1
            /\ r.total_fantasy_points
                  = SumOfPositiveWeeks(r.player_id, Len(stats_by_week))
            /\ r.season_pts.has
            /\ r.total_fantasy_points >= r.season_pts.val
            /\ r.avg_points_per_week
                  = Quotient(r.total_fantasy_points, r.weeks_played)
            /\ r.avg_points_per_week # Zero

\* C12 witness: an emitted record of a player with one scoring week and one
\* week of negative points: the total is 2 while season_stats has 2 - 3.
C12_Witness ==
    /\ AggReturned
    /\ \E i \in DOMAIN unrostered_stats :
          /\ unrostered_stats[i].total_fantasy_points = 2
          /\ unrostered_stats[i].season_pts = [has |-> TRUE, val |-> -1]
          /\ unrostered_stats[i].weeks_played = 1

\* --- helpers of the claim about the saved list
Saved == unrostered_file.st = "present"
SavedPlayers == unrostered_file.val.players
IsPermutationOfInput ==
    /\ Len(SavedPlayers) = Len(unrostered_stats)
    /\ SeqToSet(SavedPlayers) = SeqToSet(unrostered_stats)

\* C7 as stated: the saved players list is a permutation of the input that
\* is strictly descending by total_fantasy_points.
C7_StrictlyDescending ==
    Saved =>
        /\ IsPermutationOfInput
        /\ \A i \in 1..(Len(SavedPlayers) - 1) :
              SavedPlayers[i].total_fantasy_points
                 > SavedPlayers[i + 1].total_fantasy_points

\* C7 amended: the saved players list is a permutation of the input that is
\* descending by total_fantasy_points, equal totals allowed: each entry's
\* total is greater than or equal to the next entry's.
C7_Descending ==
    Saved =>
        /\ IsPermutationOfInput
        /\ \A i \in 1..(Len(SavedPlayers) - 1) :
              SavedPlayers[i].total_fantasy_points
                 >= SavedPlayers[i + 1].total_fantasy_points

\* C7 witness: two aggregates arrive in ascending order and are saved swapped.
C7_Witness ==
    /\ Saved
    /\ Len(unrostered_stats) = 2
    /\ unrostered_stats[1].total_fantasy_points
          < unrostered_stats[2].total_fantasy_points
    /\ SavedPlayers = <<unrostered_stats[2], unrostered_stats[1]>>

\* C8: get_rostered_players returns exactly the union of the rosters'
\* player lists; a missing, null or empty list adds nothing, and the empty
\* roster list gives the empty set.
C8_RosteredIsUnion ==
    pc = "returned" =>
        /\ rostered_players =
              {p \in PlayerIds :
                  \E i \in DOMAIN rosters.val :
                      /\ rosters.val[i].players.kind = "list"
                      /\ \E j \in DOMAIN rosters.val[i].players.items :
                            rosters.val[i].players.items[j] = p}
        /\ rosters.val = <<>> => rostered_players = {}

\* C8 witness: two rosters holding different players, both in the result.
C8_Witness ==
    /\ pc = "returned"
    /\ Len(rosters.val) = 2
    /\ rosters.val[1].players = [kind |-> "list", items |-> <<1>>]
    /\ rosters.val[2].players = [kind |-> "list", items |-> <<2>>]
    /\ rostered_players = {1, 2}

\* --- helpers of the claim about the league id (SpecCfg)
Resolved == pc \notin {"load_env_file", "get_league_id"}
ProcessValue == process_env[LEAGUE_KEY]
\* The lines of .env that assign SLEEPER_LEAGUE_ID.
FileAssignments ==
    {i \in DOMAIN env_file.lines :
        env_file.lines[i].kind = "kv" /\ env_file.lines[i].key = LEAGUE_KEY}
LastFileValue ==
    env_file.lines[CHOOSE i \in FileAssignments :
                      \A j \in FileAssignments : j <= i].value
UsesValue(v) ==
    IF v = "" THEN status = "exit1" ELSE status = "running" /\ league_id = v

\* C2 as stated: the order is command line, then process environment, then
\* .env: without a command-line argument, when the process environment and
\* the file give different values, the run uses the environment's value.
C2_EnvironmentBeforeFile ==
    Resolved =>
        /\ argv.given => league_id = argv.val
        /\ (/\ ~ argv.given
            /\ ProcessValue.set /\ ProcessValue.val # ""
            /\ env_file.exists /\ FileAssignments # {}
            /\ LastFileValue # ProcessValue.val)
           => league_id = ProcessValue.val

\* C2 amended: the order is command line, then .env, then process
\* environment: without a command-line argument the run uses the last
\* SLEEPER_LEAGUE_ID assignment of the file when there is one (an empty
\* value ends the run with exit status 1), and the value of the process
\* environment only when the file assigns none.
C2_FileBeforeEnvironment ==
    Resolved =>
        /\ argv.given => status = "running" /\ league_id = argv.val
        /\ (~ argv.given /\ env_file.exists /\ FileAssignments # {})
           => UsesValue(LastFileValue)
        /\ (~ argv.given /\ ~ (env_file.exists /\ FileAssignments # {}))
           => UsesValue(IF ProcessValue.set THEN ProcessValue.val ELSE "")

\* C2 witness: no argument, L2 in the environment, L3 in the file: L3 is used.
C2_Witness ==
    /\ Resolved
    /\ ~ argv.given
    /\ ProcessValue = SetTo("L2")
    /\ env_file.exists /\ FileAssignments # {} /\ LastFileValue = "L3"
    /\ league_id = "L3"

\* --- helpers of the claims about a run of main (Spec)
Absent(x) == x.st = "absent"
AbsentWeeks(by_week) == {w \in DOMAIN by_week : by_week[w].st = "absent"}
AbsentStatsWeeks == {i \in DOMAIN stats_by_week : stats_by_week[i].stats.st = "absent"}

\* C3: when the league-info fetch returns nothing the run has ended with
\* exit status 1 and has written no file, whatever the earlier fetches gave;
\* a file is only ever written after league info was fetched.
C3_NoLeagueInfoIsFatal ==
    /\ Absent(league_info) => pc = "done" /\ status = "exit1" /\ files = {}
    /\ files # {} => league_info.st = "present"

\* C3 witness: NFL state and players were fetched, league info was not.
C3_Witness ==
    /\ Absent(league_info)
    /\ nfl_state.st = "present" /\ players_data.st = "present"
    /\ status = "exit1" /\ files = {}

\* C4: once league info is fetched, no outcome of the other fetches ends
\* the run with a fault or a non-zero exit: the run goes on until main
\* returns normally.
C4_OnlyLeagueInfoIsFatal ==
    /\ status # "fault"
    /\ league_info.st = "present" => status \in {"running", "ok"}
    /\ (league_info.st = "present" /\ pc = "done") => status = "ok"
    /\ pc # "done" => ENABLED Next

\* C4 witness: main returned normally although the NFL state, the draft
\* info, a week of matchups (which the formatter ran over) and a week of
\* stats were all missing.
C4_Witness ==
    /\ pc = "done" /\ status = "ok"
    /\ Absent(nfl_state) /\ Absent(draft_info)
    /\ AbsentWeeks(matchups_by_week) # {}
    /\ formatted_data.st = "present"
    /\ AbsentStatsWeeks # {}

PerResourceFilesSkipped ==
    /\ Absent(rosters) => File("rosters", league_id, 0) \notin files
    /\ Absent(users) => File("users", league_id, 0) \notin files
    /\ Absent(current_matchups) =>
          File("matchups_week", league_id, current_week) \notin files
    /\ Absent(draft_info) => File("draft_info", league_id, 0) \notin files
    /\ Absent(draft_picks) => File("draft_picks", league_id, 0) \notin files
    /\ Absent(nfl_state) => File("nfl_state", "", 0) \notin files
    /\ Absent(players_data) => File("nfl_players", "", 0) \notin files

\* C5 as stated: an absent optional resource leaves every file that depends
\* on it unwritten; web_interface_data.json depends on players, users,
\* rosters and every week's matchups, the unrostered season stats file on
\* players, rosters and every week's stats.
C5_AbsentSkipsEveryDependent ==
    /\ PerResourceFilesSkipped
    /\ (\/ Absent(players_data) \/ Absent(users) \/ Absent(rosters)
        \/ AbsentWeeks(matchups_by_week) # {})
       => WebFile \notin files
    /\ (\/ Absent(players_data) \/ Absent(rosters) \/ AbsentStatsWeeks # {})
       => UnrosteredFile(league_id) \notin files

\* C5 amended: an absent resource leaves its own file unwritten; the web
\* file is not written when players, users or rosters are absent, and the
\* unrostered season stats file is not written when players or rosters are
\* absent or when the stats of every week are absent.  (An absent week of
\* matchups or stats is only left out of the derived file.)
C5_AbsentSkipsOwnFile ==
    /\ PerResourceFilesSkipped
    /\ (Absent(players_data) \/ Absent(users) \/ Absent(rosters))
       => WebFile \notin files
    /\ (\/ Absent(players_data) \/ Absent(rosters)
        \/ AbsentStatsWeeks = DOMAIN stats_by_week)
       => UnrosteredFile(league_id) \notin files

\* C5 witness: the rosters fetch failed and the users fetch did not; at the
\* end the users file is there, the rosters file and both derived files not.
C5_Witness ==
    /\ pc = "done" /\ status = "ok"
    /\ Absent(rosters) /\ users.st = "present" /\ players_data.st = "present"
    /\ File("users", league_id, 0) \in files
    /\ File("rosters", league_id, 0) \notin files
    /\ WebFile \notin files
    /\ UnrosteredFile(league_id) \notin files

\* --- helpers of the claim about the formatter (SpecFmt)
\* The users owning the roster a matchup names.
OwnersOf(roster_id) ==
    {u \in DOMAIN users.val :
        \E r \in DOMAIN rosters.val :
            /\ rosters.val[r].roster_id = roster_id
            /\ rosters.val[r].owner_id = users.val[u].user_id}

\* C9: every formatted matchup carries the display name and the team name
\* (the display name when there is no team name) of the user who owns the
\* matchup's roster, and "Unknown" twice when no user owns that roster or
\* the roster id is unknown.
C9_TeamLookup ==
    pc = "returned" =>
        \A k \in DOMAIN formatted_data.val.weeks :
            LET wd == formatted_data.val.weeks[k] IN
            \A j \in DOMAIN wd.matchups :
                LET m == matchups_by_week[wd.week].val[j]
                    md == wd.matchups[j]
                IN IF OwnersOf(m.roster_id) # {}
                   THEN \E u \in OwnersOf(m.roster_id) :
                           /\ md.display_name = user_display_name(users.val[u])
                           /\ md.team_name =
                                 IF users.val[u].has_team_name
                                 THEN TeamName(users.val[u].user_id)
                                 ELSE md.display_name
                   ELSE md.display_name = Unknown /\ md.team_name = Unknown

\* C10: every request is followed by the delay, failed or not, so no two
\* requests of a run follow each other without a delay between them.
C10_DelayAfterEveryRequest ==
    /\ \A i \in 1..(Len(log) - 1) :
          log[i] = "request" => log[i + 1] = "sleep"
    /\ Len(log) > 0 => log[Len(log)] = "sleep"

\* --- helpers of the claim about the order of the steps of a run (Spec)
\* The steps of main() in the order of its text.
StepOrder ==
    << <<"fetch", "nfl_state">>, <<"fetch", "players">>, <<"fetch", "league">>,
       <<"fetch", "rosters">>, <<"fetch", "users">>, <<"fetch", "matchups">>,
       <<"fetch", "draft_info">>, <<"fetch", "draft_picks">>,
       <<"write", "info">>, <<"write", "rosters">>, <<"write", "users">>,
       <<"write", "matchups_week">>, <<"write", "draft_info">>,
       <<"write", "draft_picks">>, <<"write", "nfl_state">>,
       <<"write", "nfl_players">>, <<"write", "web_interface_data">>,
       <<"fetch", "stats">>, <<"aggregate", "unrostered">>,
       <<"write", "unrostered_season_stats">> >>

Place(e) == CHOOSE k \in DOMAIN StepOrder : StepOrder[k] = <<e.kind, e.what>>

\* The steps taken once per week.
PerWeek(e) == e.kind = "fetch" /\ e.what \in {"matchups", "stats"}

\* The steps every run takes once it has a league id and the league exists.
AlwaysFetched == SubSeq(StepOrder, 1, 5)

\* The requests the claim lists, weekly stats left out.
ListedFetch(e) == e.kind = "fetch" /\ e.what # "stats"
ListedFetches == SelectSeq(trace, ListedFetch)

\* Consecutive steps follow the given order; a per-week step starts at week 1
\* and is repeated for the next week only.
InOrder(steps) ==
    /\ \A i \in 1..(Len(steps) - 1) :
          \/ Place(steps[i]) < Place(steps[i + 1])
          \/ /\ Place(steps[i]) = Place(steps[i + 1])
             /\ PerWeek(steps[i])
             /\ steps[i + 1].week = steps[i].week + 1
    /\ \A i \in DOMAIN steps :
          (PerWeek(steps[i]) /\ (i = 1 \/ Place(steps[i - 1]) # Place(steps[i])))
             => steps[i].week = 1

\* C11: the requests of a run are made in the fixed order NFL state, players,
\* league, rosters, users, matchups of weeks 1..current ascending, draft info,
\* draft picks; every request of the run is made before the aggregation, and
\* the aggregation is done before any output file is written.
C11_FetchAggregatePersist ==
    /\ InOrder(ListedFetches)
    /\ \A i, j \in DOMAIN trace :
          /\ (trace[i].kind = "fetch" /\ trace[j].kind = "aggregate") => i < j
          /\ (trace[i].kind = "aggregate" /\ trace[j].kind = "write") => i < j

\* C11 amended: the steps of a run follow the order of StepOrder: the requests
\* for NFL state, players, league, rosters and users, always and in this
\* order; the matchups of weeks 1..current ascending; draft info and picks;
\* then the per-resource files and the web file; only then the weekly stats
\* of weeks 1..current ascending, the aggregation, and the unrostered file.
C11_FetchPersistAggregate ==
    /\ InOrder(trace)
    /\ \A k \in DOMAIN AlwaysFetched :
          Len(trace) >= k => <<trace[k].kind, trace[k].what>> = AlwaysFetched[k]
    /\ \A i, j \in DOMAIN trace :
          /\ (trace[i].kind = "fetch" /\ trace[j].kind = "aggregate") => i < j
          /\ (ListedFetch(trace[i]) /\ trace[j].kind = "write") => i < j
          /\ (trace[i].kind = "aggregate" /\ trace[j].kind = "write")
                => (i < j <=> trace[j].what = "unrostered_season_stats")

\* C11 witness: a finished run that requested two weeks of matchups, wrote the
\* league file, then requested two weeks of stats, aggregated, and wrote the
\* unrostered file last.
C11_Witness ==
    /\ pc = "done" /\ status = "ok"
    /\ \E i, j, k, l \in DOMAIN trace :
          /\ i < j /\ j < k /\ k < l /\ l < Len(trace)
          /\ trace[i] = Event("fetch", "matchups", 2)
          /\ trace[j] = Event("write", "info", 0)
          /\ trace[k] = Event("fetch", "stats", 2)
          /\ trace[l] = Event("aggregate", "unrostered", 0)
    /\ trace[Len(trace)] = Event("write", "unrostered_season_stats", 0)

====
